---- MODULE Spec2Model ----
(***************************************************************************)
(* Collaboration engine of joint_doc_editor: Operation / OperationHistory  *)
(* and DocumentSession (domains/collaboration/entities.py),                *)
(* CollaborationService (domains/collaboration/services.py), the           *)
(* repositories (db/repositories/collaboration_repository.py), the HTTP    *)
(* handlers (api/http/collaboration.py) and the websocket ConnectionManager*)
(* (api/ws/sync.py).                                                       *)
(*                                                                         *)
(* Strings are sequences of one-character strings.  UUIDs of documents     *)
(* and users live in one space (Id), as in the source.                     *)
(***************************************************************************)
EXTENDS Integers, Sequences, FiniteSets, TLC

VARIABLES store, svc, nsub, ot,
          active_connections, document_operations, task, inbox, dead, owed, wsn,
          sessions, cursors, cur,
          active_sessions, now, calls,
          connections, sockets

wsvars == <<active_connections, document_operations, task, inbox, dead, owed, wsn>>
curvars == <<sessions, cursors, cur>>
sessvars == <<active_sessions, now, calls>>
sockvars == <<connections, sockets>>
vars == <<store, svc, nsub, ot, wsvars, curvars, sessvars, sockvars>>

\* ------------------------------------------------------------------ bounds

\* Number of operations submitted (single or as batch elements) in a run.
MaxSubmits == 3
\* Largest base version a client submits with.
MaxVer == 1
\* Longest base text of the transformation harness.
MaxText == 2

\* ------------------------------------------------------------ value spaces

Docs == {"d1"}
Users == {"u1"}
Id == Docs \cup Users
Services == {"s1", "s2"}

INSERT == "insert"
DELETE == "delete"
RETAIN == "retain"

Alphabet == {"a", "b"}

Min(x, y) == IF x < y THEN x ELSE y
Max(x, y) == IF x > y THEN x ELSE y

\* ------------------------------------------------------- Operation (value)

\* Operation.__init__: content defaults to "", length to 0.
Operation(operation_type, position, content, length, author_id, version) ==
    [operation_type |-> operation_type, position |-> position,
     content |-> content, length |-> length,
     author_id |-> author_id, version |-> version]

\* Python's text[:p]
SliceTo(text, p) ==
    LET n == Len(text)
        k == IF p < 0 THEN Max(n + p, 0) ELSE Min(p, n)
    IN SubSeq(text, 1, k)

\* Python's text[p:]
SliceFrom(text, p) ==
    LET n == Len(text)
        k == IF p < 0 THEN Max(n + p, 0) ELSE Min(p, n)
    IN SubSeq(text, k + 1, n)

apply_to(op, text) ==
    IF op.operation_type = INSERT
    THEN SliceTo(text, op.position) \o op.content \o SliceFrom(text, op.position)
    ELSE IF op.operation_type = DELETE
    THEN SliceTo(text, op.position) \o SliceFrom(text, op.position + op.length)
    ELSE text

\* Operation.transform(self, other): the INSERT branches build the result
\* without length (so it is 0), the DELETE branches without content (so "").
transform(self, other) ==
    LET ins(p) == Operation(self.operation_type, p, self.content, 0,
                            self.author_id, self.version)
        del(p, l) == Operation(self.operation_type, p, <<>>, l,
                               self.author_id, self.version)
    IN
    IF self.operation_type = INSERT /\ other.operation_type = INSERT
    THEN IF self.position <= other.position
         THEN ins(self.position)
         ELSE ins(self.position + Len(other.content))
    ELSE IF self.operation_type = INSERT /\ other.operation_type = DELETE
    THEN IF self.position <= other.position
         THEN ins(self.position)
         ELSE IF self.position > other.position + other.length
         THEN ins(self.position - other.length)
         ELSE ins(other.position)
    ELSE IF self.operation_type = DELETE /\ other.operation_type = INSERT
    THEN IF self.position < other.position
         THEN del(self.position, self.length)
         ELSE del(self.position + Len(other.content), self.length)
    ELSE IF self.operation_type = DELETE /\ other.operation_type = DELETE
    THEN IF self.position + self.length <= other.position
         THEN del(self.position, self.length)
         ELSE IF self.position >= other.position + other.length
         THEN del(self.position - other.length, self.length)
         ELSE LET start == Max(self.position, other.position)
                  end == Min(self.position + self.length,
                             other.position + other.length)
                  overlap == end - start
              IN IF self.position < other.position
                 THEN del(self.position, Max(0, self.length - overlap))
                 ELSE del(other.position, Max(0, self.length - overlap))
    ELSE Operation(self.operation_type, self.position, self.content,
                   self.length, self.author_id, self.version)

\* transform_operations that hands both operations back as they came.
transform_operations_untransformed(op1, op2) == <<op1, op2>>

\* transform_operations with the two results the other way round.
transform_operations_swapped(op1, op2) ==
    <<transform(op2, op1), transform(op1, op2)>>

\* OperationalTransformationService.transform_operations
transform_operations(op1, op2) == <<transform(op1, op2), transform(op2, op1)>>

\* --------------------------------------------- transformation harness (OT)

\* All strings over Alphabet of length at most n.
Strings(n) == UNION {[1..k -> Alphabet] : k \in 0..n}

\* Inserted content: non-empty (schemas.py validate_content).
Contents == {<<"a">>, <<"b">>, <<"a", "b">>}

\* INSERT and DELETE operations that are valid on text S.
ValidOps(S, author) ==
    {Operation(INSERT, p, c, 0, author, 0) : p \in 0..Len(S), c \in Contents}
    \cup
    {Operation(DELETE, pl[1], <<>>, pl[2], author, 0) :
        pl \in {q \in (0..Len(S)) \X (1..Len(S)) : q[1] + q[2] <= Len(S)}}

OTIdle == [pc |-> "off"]

OTInit ==
    \E S \in Strings(MaxText) :
      \E a \in ValidOps(S, "author_a"), b \in ValidOps(S, "author_b") :
        ot = [pc |-> "input", S |-> S, a |-> a, b |-> b]

\* transform_operations(a, b) on two concurrent operations of base text S.
OTTransform ==
    /\ ot.pc = "input"
    /\ LET t == transform_operations(ot.a, ot.b)
       IN ot' = [pc |-> "transformed", S |-> ot.S, a |-> ot.a, b |-> ot.b,
                 ta |-> t[1], tb |-> t[2]]
    /\ UNCHANGED <<store, svc, nsub, wsvars, curvars, sessvars, sockvars>>

\* Both replicas apply their own operation, then the transformed other one.
OTApply ==
    /\ ot.pc = "transformed"
    /\ ot' = [pc |-> "applied", S |-> ot.S, a |-> ot.a, b |-> ot.b,
              ta |-> ot.ta, tb |-> ot.tb,
              afterB |-> apply_to(ot.ta, apply_to(ot.b, ot.S)),
              afterA |-> apply_to(ot.tb, apply_to(ot.a, ot.S))]
    /\ UNCHANGED <<store, svc, nsub, wsvars, curvars, sessvars, sockvars>>

\* ------------------------------------------------------- OperationHistory

\* OperationHistory.__init__
OperationHistory(document_id) ==
    [document_id |-> document_id, operations |-> <<>>, current_version |-> 0]

\* add_operation without the version stamp: the operation keeps the version
\* it was submitted or stored with.
add_operation_unstamped(history, operation) ==
    [history EXCEPT !.operations = Append(@, operation),
                    !.current_version = @ + 1]

\* add_operation stamps the operation with current_version + 1, appends it
\* and increments current_version.
add_operation(history, operation) ==
    [history EXCEPT
       !.operations = Append(@, [operation EXCEPT
                                   !.version = history.current_version + 1]),
       !.current_version = @ + 1]

\* get_operations_since with >= for >.
get_operations_since_inclusive(history, version) ==
    LET newer(op) == op.version >= version
    IN SelectSeq(history.operations, newer)

get_operations_since(history, version) ==
    LET newer(op) == op.version > version
    IN SelectSeq(history.operations, newer)

RECURSIVE transform_against(_, _, _)
\* The loop of transform_operation over operations[i..]; base is
\* new_operation.version, which transform never changes.
transform_against(transformed, operations, base) ==
    IF operations = <<>> THEN transformed
    ELSE transform_against(
           IF Head(operations).version > base
           THEN transform(transformed, Head(operations))
           ELSE transformed,
           Tail(operations), base)

transform_operation(history, new_operation) ==
    transform_against(new_operation, history.operations, new_operation.version)

RECURSIVE apply_all(_, _)
\* The loop of get_current_text: apply every operation in list order.
apply_all(operations, text) ==
    IF operations = <<>> THEN text
    ELSE apply_all(Tail(operations), apply_to(Head(operations), text))

get_current_text(history, initial_text) ==
    apply_all(history.operations, initial_text)

\* OperationHistory.clear
clear(history) == [history EXCEPT !.operations = <<>>, !.current_version = 0]

\* ---------------------------------------------------- OperationRepository

\* The row OperationRepository.create writes: document_id is the author id.
create_row(operation) ==
    [document_id |-> operation.author_id, user_id |-> operation.author_id,
     operation_type |-> operation.operation_type,
     position |-> operation.position, content |-> operation.content,
     length |-> operation.length, version |-> operation.version]

\* OperationRepository._to_domain
to_domain(row) ==
    Operation(row.operation_type, row.position, row.content, row.length,
              row.user_id, row.version)

\* Indices of the rows of one document.
DocRows(document_id) ==
    {i \in DOMAIN store : store[i].document_id = document_id}

\* ORDER BY version ASC: every order of the document's rows that is
\* ascending in version (rows of equal version come in any order).
VersionOrders(document_id) ==
    LET idx == DocRows(document_id)
        n == Cardinality(idx)
    IN {f \in [1..n -> idx] :
          /\ \A i, j \in 1..n : i # j => f[i] # f[j]
          /\ \A i, j \in 1..n : i < j => store[f[i]].version <= store[f[j]].version}

\* The results get_by_document may return (OFFSET offset LIMIT limit).
get_by_document(document_id, limit, offset) ==
    LET n == Cardinality(DocRows(document_id))
        m == Max(0, Min(limit, n - offset))
    IN {[i \in 1..m |-> to_domain(store[f[i + offset]])] :
          f \in VersionOrders(document_id)}

\* limit=1000 of _load_operation_history
LoadLimit == 1000

RECURSIVE add_all(_, _)
add_all(history, operations) ==
    IF operations = <<>> THEN history
    ELSE add_all(add_operation(history, Head(operations)), Tail(operations))

\* _load_operation_history: clear, then add_operation for each loaded row.
load_operation_history(history, operations) ==
    add_all(clear(history), operations)

\* --------------------------------------------------- CollaborationService

\* Positions, lengths and content a client submits (schemas.py: position
\* >= 0, INSERT with content, DELETE with positive length and no content).
Positions == 0..1
InsertContents == {<<"a">>, <<"b">>}
DeleteLengths == {1}

\* OperationCreate
OperationCreate ==
    {[type |-> INSERT, position |-> p, content |-> c, length |-> 0,
      author_id |-> u, version |-> v] :
        p \in Positions, c \in InsertContents, u \in Users, v \in 0..MaxVer}
    \cup
    {[type |-> DELETE, position |-> p, content |-> <<>>, length |-> l,
      author_id |-> u, version |-> v] :
        p \in Positions, l \in DeleteLengths, u \in Users, v \in 0..MaxVer}

\* OperationBatch.operations: up to two operations.
BatchOperations ==
    {<<>>} \cup {<<od>> : od \in OperationCreate}
           \cup {<<o1, o2>> : o1 \in OperationCreate, o2 \in OperationCreate}

NoOperation == Operation(RETAIN, 0, <<>>, 0, "u1", 0)
NoResult == [kind |-> "none"]

\* CollaborationService.__init__: empty _operation_histories.
NewService ==
    [hist |-> <<>>, pc |-> "idle", doc |-> "d1", key |-> "d1",
     pending |-> NoOperation, pre |-> OperationHistory("d1"),
     rest |-> <<>>, index |-> 0, processed |-> <<>>, failed |-> <<>>,
     result |-> NoResult]

\* The locals of a call, dropped when it returns.
Returned(r, result) ==
    [NewService EXCEPT !.hist = r.hist, !.result = result]

\* self._operation_histories[document_id] = history
SetHistory(hist, document_id, history) ==
    [k \in DOMAIN hist \cup {document_id} |->
        IF k = document_id THEN history ELSE hist[k]]

\* "if document_id not in self._operation_histories: ... load": the
\* histories the service may hold for document_id after the lazy load.
LoadedHistories(s, document_id) ==
    IF document_id \in DOMAIN svc[s].hist
    THEN {svc[s].hist[document_id]}
    ELSE {load_operation_history(OperationHistory(document_id), operations) :
            operations \in get_by_document(document_id, LoadLimit, 0)}

\* Operation(...) built from an OperationCreate
FromCreate(od) ==
    Operation(od.type, od.position, od.content, od.length, od.author_id,
              od.version)

RECURSIVE transform_each(_, _)
\* "for prev_op in processed_operations: operation = operation.transform(prev_op)"
transform_each(operation, processed) ==
    IF processed = <<>> THEN operation
    ELSE transform_each(transform(operation, Head(processed)), Tail(processed))

Last(seq) == seq[Len(seq)]

\* HTTP constructs a CollaborationService per request.
new_service(s) ==
    /\ svc[s].pc = "idle"
    /\ svc[s] # NewService
    /\ svc' = [svc EXCEPT ![s] = NewService]
    /\ UNCHANGED <<store, nsub, ot, wsvars, curvars, sessvars, sockvars>>

\* apply_operation up to "await self.operation_repository.create": lazy
\* load under document_id = author_id, transform, add_operation.
\* doc is the document_uuid of the request, which the code never reads.
apply_operation(s, doc, operation_data) ==
    /\ svc[s].pc = "idle"
    /\ nsub + 1 <= MaxSubmits
    /\ nsub' = nsub + 1
    /\ LET document_id == operation_data.author_id
       IN \E history \in LoadedHistories(s, document_id) :
            LET transformed_operation ==
                    transform_operation(history, FromCreate(operation_data))
                added == add_operation(history, transformed_operation)
            IN svc' = [svc EXCEPT ![s] =
                 [NewService EXCEPT
                    !.hist = SetHistory(svc[s].hist, document_id, added),
                    !.pc = "create",
                    !.doc = doc,
                    !.key = document_id,
                    !.pending = Last(added.operations),
                    !.pre = history]]
    /\ UNCHANGED <<store, ot, wsvars, curvars, sessvars, sockvars>>

\* The commit of OperationRepository.create succeeds: the row is written,
\* the operation is broadcast (printed) and returned.
apply_operation_created(s) ==
    /\ svc[s].pc = "create"
    /\ store' = Append(store, create_row(svc[s].pending))
    /\ svc' = [svc EXCEPT ![s] = Returned(svc[s],
          [kind |-> "applied", doc |-> svc[s].doc, key |-> svc[s].key,
           operation |-> svc[s].pending])]
    /\ UNCHANGED <<nsub, ot, wsvars, curvars, sessvars, sockvars>>

\* The commit raises: apply_operation propagates the exception.
apply_operation_failed(s) ==
    /\ svc[s].pc = "create"
    /\ svc' = [svc EXCEPT ![s] = Returned(svc[s],
          [kind |-> "error", doc |-> svc[s].doc, key |-> svc[s].key,
           operation |-> svc[s].pending, before |-> svc[s].pre])]
    /\ UNCHANGED <<store, nsub, ot, wsvars, curvars, sessvars, sockvars>>

\* One turn of the loop of apply_operation_batch, from the top of the loop
\* to "await self.operation_repository.create"; after the last element the
\* broadcasts (prints) and the return.  r is the service with processed and
\* failed up to date and rest the elements still to process; pre is the
\* history as the batch found it.
batch_step(r) ==
    IF r.rest = <<>>
    THEN Returned(r, [kind |-> "batch", doc |-> r.doc, key |-> r.key,
                      before |-> r.pre,
                      processed_operations |-> r.processed,
                      failed_operations |-> r.failed,
                      final_version |-> r.hist[r.key].current_version])
    ELSE LET history == r.hist[r.key]
             operation == transform_each(FromCreate(Head(r.rest)), r.processed)
             transformed_operation == transform_operation(history, operation)
             added == add_operation(history, transformed_operation)
         IN [r EXCEPT !.hist = SetHistory(@, r.key, added),
                      !.pc = "batch_create",
                      !.pending = Last(added.operations),
                      !.rest = Tail(@),
                      !.index = @ + 1]

\* apply_operation_batch up to its first await of create (or to its return
\* when the batch is empty): lazy load under batch.document_id.
apply_operation_batch(s, doc, operations) ==
    /\ svc[s].pc = "idle"
    /\ nsub + Len(operations) <= MaxSubmits
    /\ nsub' = nsub + Len(operations)
    /\ \E history \in LoadedHistories(s, doc) :
         svc' = [svc EXCEPT ![s] = batch_step(
               [NewService EXCEPT
                  !.hist = SetHistory(svc[s].hist, doc, history),
                  !.doc = doc, !.key = doc, !.pre = history,
                  !.rest = operations, !.index = -1])]
    /\ UNCHANGED <<store, ot, wsvars, curvars, sessvars, sockvars>>

\* create commits for a batch element: the element joins
\* processed_operations and the loop goes on.
batch_created(s) ==
    /\ svc[s].pc = "batch_create"
    /\ store' = Append(store, create_row(svc[s].pending))
    /\ svc' = [svc EXCEPT ![s] = batch_step(
          [@ EXCEPT !.processed = Append(@, svc[s].pending)])]
    /\ UNCHANGED <<nsub, ot, wsvars, curvars, sessvars, sockvars>>

\* create raises for a batch element: "except Exception" records the index
\* in failed_operations and the loop goes on.
batch_failed(s) ==
    /\ svc[s].pc = "batch_create"
    /\ svc' = [svc EXCEPT ![s] = batch_step(
          [@ EXCEPT !.failed = Append(@, svc[s].index)])]
    /\ UNCHANGED <<store, nsub, ot, wsvars, curvars, sessvars, sockvars>>

\* sync_document: lazy load under sync_request.document_id, then
\* get_operations_since(client_version).
sync_document(s, doc, client_version) ==
    /\ svc[s].pc = "idle"
    /\ \E history \in LoadedHistories(s, doc) :
         svc' = [svc EXCEPT ![s] = Returned(
           [svc[s] EXCEPT !.hist = SetHistory(@, doc, history)],
           [kind |-> "sync", doc |-> doc, key |-> doc,
            client_version |-> client_version,
            loaded |-> doc \notin DOMAIN svc[s].hist,
            current_version |-> history.current_version,
            pending_operations |->
              get_operations_since(history, client_version)])]
    /\ UNCHANGED <<store, nsub, ot, wsvars, curvars, sessvars, sockvars>>

RECURSIVE VersionsDesc(_)
\* Versions of the rows idx, highest first (ORDER BY version DESC), one
\* entry per row.
VersionsDesc(idx) ==
    IF idx = {} THEN <<>>
    ELSE LET i == CHOOSE x \in idx : \A y \in idx : store[x].version >= store[y].version
         IN <<store[i].version>> \o VersionsDesc(idx \ {i})

\* OperationRepository.delete_old_operations(document_id, keep_last)
delete_old_operations(document_id, keep_last) ==
    /\ LET desc == VersionsDesc(DocRows(document_id))
           keep(row) == ~(row.document_id = document_id
                          /\ row.version <= desc[keep_last + 1])
       IN /\ Len(desc) > keep_last
          /\ store' = SelectSeq(store, keep)
    /\ UNCHANGED <<svc, nsub, ot, wsvars, curvars, sessvars, sockvars>>

\* ------------------------------------------- websocket hub (api/ws/sync.py)

\* Users that open a websocket (each at most once) and the documents they
\* open it on.
WSUsers == {"w1", "w2", "w3", "w4"}
WSDocs == {"d1", "d2"}
\* Number of "operation" and of "cursor" messages received from one user.
MaxWsOps == 1
MaxWsCursors == 1

NoUser == "none"
\* A deleted entry of a dict: iteration skips it, insertion appends.
Gone == "_"

\* A frame sent to a websocket: its type, the user it is about and, for
\* operation and cursor frames, the number of the message it carries.
Frame(type, user_id, n) == [type |-> type, user_id |-> user_id, n |-> n]
NoFrame == Frame("none", NoUser, 0)
\* inbox[u] lists the frames of these types sent to the websocket of u.
Logged == {"operation", "user_left"}

\* websocket_endpoint of one user: where it stands (pc), its document, and
\* the locals of the broadcast_to_document it is in: the message,
\* exclude_user, the websocket about to be sent to (target), the dict
\* iterator (idx: next entry to look at, used: size of the dict when the
\* loop started, len: items left to yield, stale: the dict was deleted
\* from active_connections) and disconnected_users.  ended tells how the
\* last broadcast ended; audience is the connection set the last operation
\* was received in, ops_before the number of operations the document had
\* when the last cursor message was received.
IdleTask ==
    [pc |-> "idle", doc |-> "d1", message |-> NoFrame,
     exclude_user |-> NoUser, target |-> NoUser, idx |-> 1, used |-> 0,
     len |-> 0, stale |-> FALSE, disconnected_users |-> <<>>,
     ended |-> "none", audience |-> {}, ops_before |-> 0]

\* self.active_connections[document_id].keys(); a document that is not in
\* active_connections has the empty entry array.
Keys(entries) == {entries[i] : i \in DOMAIN entries} \ {Gone}

\* The ConnectionManager with the record of the user_left frames still to
\* send (owed: <<u, r>> when u was removed while r was connected).
Manager ==
    [ac |-> active_connections, ops |-> document_operations, owed |-> owed]

\* ConnectionManager.disconnect
disconnect(m, document_id, user_id) ==
    LET entries == m.ac[document_id]
        removed == [i \in DOMAIN entries |->
                      IF entries[i] = user_id THEN Gone ELSE entries[i]]
        owed1 == IF user_id \in Keys(entries)
                 THEN {p \in m.owed : p[2] # user_id}
                      \cup {<<user_id, r>> : r \in Keys(removed)}
                 ELSE m.owed
    IN IF Keys(entries) = {} THEN m
       ELSE IF Keys(removed) = {}
       THEN [ac |-> [m.ac EXCEPT ![document_id] = <<>>],
             ops |-> [m.ops EXCEPT ![document_id] = <<>>],
             owed |-> owed1]
       ELSE [m EXCEPT !.ac[document_id] = removed, !.owed = owed1]

RECURSIVE disconnect_all(_, _, _)
\* "for user_id in disconnected_users: self.disconnect(document_id, user_id)"
disconnect_all(m, document_id, users) ==
    IF users = <<>> THEN m
    ELSE disconnect_all(disconnect(m, document_id, Head(users)),
                        document_id, Tail(users))

\* next() of the iterator over active_connections[document_id].items():
\* RuntimeError when the dict changed size (or was deleted) since the loop
\* started or when more keys turn up than the loop started with.
iter_next(entries, t) ==
    LET live == {i \in DOMAIN entries : i >= t.idx /\ entries[i] # Gone}
        i == CHOOSE x \in live : \A y \in live : x <= y
    IN IF t.stale \/ Cardinality(Keys(entries)) # t.used
       THEN [kind |-> "error", user_id |-> NoUser, idx |-> t.idx, len |-> t.len]
       ELSE IF live = {}
       THEN [kind |-> "stop", user_id |-> NoUser, idx |-> t.idx, len |-> t.len]
       ELSE IF t.len = 0
       THEN [kind |-> "error", user_id |-> NoUser, idx |-> t.idx, len |-> t.len]
       ELSE [kind |-> "item", user_id |-> entries[i], idx |-> i + 1,
             len |-> t.len - 1]

\* The head of the loop of broadcast_to_document: the next entry that is
\* not exclude_user.
next_recipient(entries, t) ==
    LET r == iter_next(entries, t)
    IN IF r.kind = "item" /\ t.exclude_user # NoUser
          /\ r.user_id = t.exclude_user
       THEN iter_next(entries, [t EXCEPT !.idx = r.idx, !.len = r.len])
       ELSE r

\* Where websocket_endpoint goes on when a broadcast returns.
after_broadcast(type) == IF type = "user_left" THEN "closed" ELSE "receive"

\* "except: disconnected_users.append(user_id)", with its mutant
on_send_error_dropped(t, user_id) == t

on_send_error(t, user_id) ==
    [t EXCEPT !.disconnected_users = Append(@, user_id)]

\* broadcast_to_document of the endpoint of user u from the head of its
\* loop to the next send: either a recipient is found, or the loop ends
\* and the disconnected users are removed, or the iterator raises.  The
\* RuntimeError leaves connect and the user_left handler; in the receive
\* loop "except Exception" disconnects u.
broadcast_step(m, t, u) ==
    LET r == next_recipient(m.ac[t.doc], t)
    IN IF r.kind = "item"
       THEN [m |-> m,
             t |-> [t EXCEPT !.pc = "send", !.target = r.user_id,
                             !.idx = r.idx, !.len = r.len]]
       ELSE IF r.kind = "stop"
       THEN [m |-> disconnect_all(m, t.doc, t.disconnected_users),
             t |-> [t EXCEPT !.pc = after_broadcast(t.message.type),
                             !.target = NoUser, !.ended = "returned"]]
       ELSE [m |-> IF t.message.type \in {"operation", "cursor"}
                   THEN disconnect(m, t.doc, u) ELSE m,
             t |-> [t EXCEPT !.pc = "closed", !.target = NoUser,
                             !.ended = "raised"]]

\* broadcast_to_document from its call to its first send.
broadcast_to_document(m, t, u, message, exclude_user) ==
    LET entries == m.ac[t.doc]
        t0 == [t EXCEPT !.message = message, !.exclude_user = exclude_user,
                        !.target = NoUser, !.idx = 1,
                        !.used = Cardinality(Keys(entries)),
                        !.len = Cardinality(Keys(entries)),
                        !.stale = FALSE, !.disconnected_users = <<>>,
                        !.ended = "none"]
    IN IF Keys(entries) = {}
       THEN [m |-> m,
             t |-> [t0 EXCEPT !.pc = after_broadcast(message.type),
                              !.ended = "returned"]]
       ELSE broadcast_step(m, t0, u)

\* The manager and the endpoint of u after a step; the loops of the other
\* endpoints over a dict this step deleted are left with a dead iterator.
Commit(u, r) ==
    /\ active_connections' = r.m.ac
    /\ document_operations' = r.m.ops
    /\ owed' = r.m.owed
    /\ task' = [v \in WSUsers |->
         IF v = u THEN r.t
         ELSE IF /\ task[v].pc = "send"
                 /\ Keys(active_connections[task[v].doc]) # {}
                 /\ r.m.ac[task[v].doc] = <<>>
         THEN [task[v] EXCEPT !.stale = TRUE]
         ELSE task[v]]

\* ConnectionManager.connect up to the send of the welcome message.
ws_connect(u, d) ==
    /\ task[u].pc = "idle"
    /\ active_connections' = [active_connections EXCEPT ![d] =
          IF u \in Keys(@) THEN @ ELSE Append(@, u)]
    /\ document_operations' =
          IF Keys(active_connections[d]) = {}
          THEN [document_operations EXCEPT ![d] = <<>>]
          ELSE document_operations
    /\ task' = [task EXCEPT ![u] = [IdleTask EXCEPT !.pc = "welcome", !.doc = d]]
    /\ UNCHANGED <<inbox, dead, owed, wsn, store, svc, nsub, ot, curvars, sessvars, sockvars>>

\* The welcome message is sent (or the send raises and connect re-raises,
\* outside the try of websocket_endpoint), then user_joined is broadcast.
ws_welcome(u) ==
    /\ task[u].pc = "welcome"
    /\ IF u \in dead
       THEN /\ task' = [task EXCEPT ![u] = [@ EXCEPT !.pc = "closed", !.ended = "raised"]]
            /\ UNCHANGED <<active_connections, document_operations, owed, inbox>>
       ELSE /\ inbox' = inbox
            /\ Commit(u, broadcast_to_document(Manager, task[u], u,
                                               Frame("user_joined", u, 0), u))
    /\ UNCHANGED <<dead, wsn, store, svc, nsub, ot, curvars, sessvars, sockvars>>

\* "await websocket.send_text(message_json)" inside the loop of
\* broadcast_to_document and the loop up to the next send.
ws_send(u) ==
    /\ task[u].pc = "send"
    /\ LET t == task[u]
           r == t.target
           ok == r \notin dead
           m == IF ok /\ t.message.type = "user_left"
                THEN [Manager EXCEPT !.owed = @ \ {<<t.message.user_id, r>>}]
                ELSE Manager
       IN /\ inbox' = IF ok /\ t.message.type \in Logged
                      THEN [inbox EXCEPT ![r] = Append(@, t.message)]
                      ELSE inbox
          /\ Commit(u, broadcast_step(m, IF ok THEN t ELSE on_send_error(t, r), u))
    /\ UNCHANGED <<dead, wsn, store, svc, nsub, ot, curvars, sessvars, sockvars>>

\* A message of type "operation" is received: handle_operation up to the
\* first send.
ws_receive_operation(u) ==
    /\ task[u].pc = "receive"
    /\ u \notin dead
    /\ wsn.op[u] < MaxWsOps
    /\ wsn' = [wsn EXCEPT !.op[u] = @ + 1]
    /\ LET d == task[u].doc
           operation == Frame("operation", u, wsn.op[u] + 1)
       IN Commit(u, broadcast_to_document(
              [Manager EXCEPT !.ops[d] = Append(@, operation)],
              [task[u] EXCEPT !.audience = Keys(active_connections[d]) \ {u}],
              u, operation, u))
    /\ UNCHANGED <<inbox, dead, store, svc, nsub, ot, curvars, sessvars, sockvars>>

\* A cursor message that were recorded like an operation.
ws_receive_cursor_recorded(u) ==
    /\ task[u].pc = "receive"
    /\ u \notin dead
    /\ wsn.cursor[u] < MaxWsCursors
    /\ wsn' = [wsn EXCEPT !.cursor[u] = @ + 1]
    /\ LET message == Frame("cursor", u, wsn.cursor[u] + 1)
       IN Commit(u, broadcast_to_document(
              [Manager EXCEPT !.ops[task[u].doc] = Append(@, message)],
              [task[u] EXCEPT !.ops_before =
                                 Len(document_operations[task[u].doc])],
              u, message, u))
    /\ UNCHANGED <<inbox, dead, store, svc, nsub, ot, curvars, sessvars, sockvars>>

\* A message of type "cursor" is received: the broadcast up to its first
\* send.
ws_receive_cursor(u) ==
    /\ task[u].pc = "receive"
    /\ u \notin dead
    /\ wsn.cursor[u] < MaxWsCursors
    /\ wsn' = [wsn EXCEPT !.cursor[u] = @ + 1]
    /\ Commit(u, broadcast_to_document(
          Manager,
          [task[u] EXCEPT !.ops_before = Len(document_operations[task[u].doc])],
          u, Frame("cursor", u, wsn.cursor[u] + 1), u))
    /\ UNCHANGED <<inbox, dead, store, svc, nsub, ot, curvars, sessvars, sockvars>>

\* A message the loop cannot handle (not JSON, no "data"): "except
\* Exception" disconnects the user and the endpoint returns.
ws_receive_invalid(u) ==
    /\ task[u].pc = "receive"
    /\ u \notin dead
    /\ Commit(u, [m |-> disconnect(Manager, task[u].doc, u),
                  t |-> [task[u] EXCEPT !.pc = "closed", !.ended = "raised"]])
    /\ UNCHANGED <<inbox, dead, wsn, store, svc, nsub, ot, curvars, sessvars, sockvars>>

\* The client of u goes away: sends to its websocket raise from now on.
ws_client_gone(u) ==
    /\ task[u].pc \notin {"idle", "closed"}
    /\ u \notin dead
    /\ dead' = dead \cup {u}
    /\ UNCHANGED <<active_connections, document_operations, task, inbox,
                   owed, wsn, store, svc, nsub, ot, curvars, sessvars, sockvars>>

\* receive_text raises WebSocketDisconnect: disconnect, then user_left is
\* broadcast to the document.
ws_receive_disconnect(u) ==
    /\ task[u].pc = "receive"
    /\ u \in dead
    /\ Commit(u, broadcast_to_document(disconnect(Manager, task[u].doc, u),
                                       task[u], u, Frame("user_left", u, 0),
                                       NoUser))
    /\ UNCHANGED <<inbox, dead, wsn, store, svc, nsub, ot, curvars, sessvars, sockvars>>

\* manager = ConnectionManager()
WSInit ==
    /\ active_connections = [d \in WSDocs |-> <<>>]
    /\ document_operations = [d \in WSDocs |-> <<>>]
    /\ task = [u \in WSUsers |-> IdleTask]
    /\ inbox = [u \in WSUsers |-> <<>>]
    /\ dead = {}
    /\ owed = {}
    /\ wsn = [op |-> [u \in WSUsers |-> 0], cursor |-> [u \in WSUsers |-> 0]]

\* ----------------------------------------------- sessions and cursors

\* Number of rows of document_sessions in a run.
MaxSessions == 2

\* Values a client sends for position, selection_start and selection_end.
CursorValues == 0..1
CursorKeys == {"position", "selection_start", "selection_end"}

\* The body of POST /documents/{uuid}/cursor, a Dict[str, int]: any of the
\* three keys may be missing.
CursorData == UNION {[K -> CursorValues] : K \in SUBSET CursorKeys}

\* cursor_data.get(key, default)
get(cursor_data, key, default) ==
    IF key \in DOMAIN cursor_data THEN cursor_data[key] ELSE default

\* DocumentSession: the entity, of which document_sessions keeps
\* cursor_position, is_active and last_activity; uuid is the number of its
\* row; last_activity starts as utcnow().
DocumentSession(session_uuid, document_id, user_id, cursor_position) ==
    [uuid |-> session_uuid, document_id |-> document_id, user_id |-> user_id,
     cursor_position |-> cursor_position, selection_start |-> 0,
     selection_end |-> 0, is_active |-> TRUE, last_activity |-> now]

NoSession ==
    [DocumentSession(0, "none", "none", 0) EXCEPT !.last_activity = 0]

\* DocumentSession.update_cursor with all three arguments given.
session_update_cursor(session, position, selection_start, selection_end) ==
    [session EXCEPT !.cursor_position = position,
                    !.selection_start = selection_start,
                    !.selection_end = selection_end,
                    !.last_activity = now]

\* DocumentSessionRepository._to_domain: selection_start and selection_end
\* are not columns, the entity gets its defaults.
session_to_domain(i) ==
    [DocumentSession(i, sessions[i].document_id, sessions[i].user_id,
                     sessions[i].cursor_position)
       EXCEPT !.is_active = sessions[i].is_active,
              !.last_activity = sessions[i].last_activity]

\* DocumentSessionRepository.get_by_document_and_user: rows of the active
\* sessions of the user on the document.
get_by_document_and_user(document_id, user_id) ==
    {i \in DOMAIN sessions : /\ sessions[i].document_id = document_id
                             /\ sessions[i].user_id = user_id
                             /\ sessions[i].is_active}

\* The request to update_cursor that is in flight.
IdleCursor ==
    [pc |-> "idle", document_id |-> "d1", user_id |-> "u1", position |-> 0,
     selection_start |-> 0, selection_end |-> 0, session |-> NoSession]

\* POST /documents/{uuid}/join: join_document for the default user creates
\* the session row unless an active one exists.
http_join_document(document_uuid) ==
    /\ cur.pc = "idle"
    /\ get_by_document_and_user(document_uuid, "u1") = {}
    /\ Len(sessions) < MaxSessions
    /\ sessions' = Append(sessions,
          [document_id |-> document_uuid, user_id |-> "u1",
           cursor_position |-> 0, is_active |-> TRUE,
           last_activity |-> now])
    /\ UNCHANGED <<cursors, cur, store, svc, nsub, ot, wsvars, sessvars, sockvars>>

\* POST /documents/{uuid}/leave: leave_document deactivates the session
\* and removes the cursor of the user.
http_leave_document(document_uuid) ==
    /\ cur.pc = "idle"
    /\ \E i \in get_by_document_and_user(document_uuid, "u1") :
         sessions' = [sessions EXCEPT ![i] =
            [@ EXCEPT !.is_active = FALSE, !.last_activity = now]]
    /\ cursors' = {c \in cursors : ~(c.document_id = document_uuid
                                     /\ c.user_id = "u1")}
    /\ UNCHANGED <<cur, store, svc, nsub, ot, wsvars, sessvars, sockvars>>

\* CollaborationService.update_cursor up to the await of
\* session_repository.update (or, without a session, of
\* cursor_repository.update_cursor).
update_cursor(document_id, user_id, position, selection_start, selection_end) ==
    /\ cur.pc = "idle"
    /\ LET found == get_by_document_and_user(document_id, user_id)
           call == [IdleCursor EXCEPT !.document_id = document_id,
                                      !.user_id = user_id,
                                      !.position = position,
                                      !.selection_start = selection_start,
                                      !.selection_end = selection_end]
       IN IF found = {}
          THEN cur' = [call EXCEPT !.pc = "cursor_update"]
          ELSE \E i \in found :
                 cur' = [call EXCEPT !.pc = "session_update",
                           !.session = session_update_cursor(
                               session_to_domain(i), position,
                               selection_start, selection_end)]
    /\ UNCHANGED <<sessions, cursors, store, svc, nsub, ot, wsvars, sessvars, sockvars>>

\* POST /documents/{uuid}/cursor
http_update_cursor(document_uuid, cursor_data) ==
    LET position == get(cursor_data, "position", 0)
    IN update_cursor(document_uuid, "u1", position,
                     get(cursor_data, "selection_start", position),
                     get(cursor_data, "selection_end", position))

\* session_repository.update(session) commits: cursor_position, is_active
\* and last_activity of the row are written.
update_cursor_session ==
    /\ cur.pc = "session_update"
    /\ sessions' = [sessions EXCEPT ![cur.session.uuid] =
          [@ EXCEPT !.cursor_position = cur.session.cursor_position,
                    !.is_active = cur.session.is_active,
                    !.last_activity = cur.session.last_activity]]
    /\ cur' = [cur EXCEPT !.pc = "cursor_update"]
    /\ UNCHANGED <<cursors, store, svc, nsub, ot, wsvars, sessvars, sockvars>>

\* cursor_repository.update_cursor commits the row of user_cursors, the
\* update is broadcast (printed) and update_cursor returns.
update_cursor_cursor ==
    /\ cur.pc = "cursor_update"
    /\ cursors' = {c \in cursors : ~(c.document_id = cur.document_id
                                     /\ c.user_id = cur.user_id)}
                  \cup {[document_id |-> cur.document_id,
                         user_id |-> cur.user_id, position |-> cur.position,
                         selection_start |-> cur.selection_start,
                         selection_end |-> cur.selection_end]}
    /\ cur' = IdleCursor
    /\ UNCHANGED <<sessions, store, svc, nsub, ot, wsvars, sessvars, sockvars>>

CursorInit ==
    /\ sessions = <<>>
    /\ cursors = {}
    /\ cur = IdleCursor

\* ------------------------------------- sessions of a CollaborationService

\* cleanup_inactive_sessions(minutes=30)
IdleMinutes == 30
\* Latest time of a run, in minutes.
MaxNow == 45

SessionUsers == {"w1", "w2"}

\* The call a service is in: join_document, leave_document, get_active_users
\* or cleanup_inactive_sessions, with the entity it holds.
IdleCall ==
    [pc |-> "idle", document_id |-> "d1", user_id |-> "w1",
     session |-> NoSession, result |-> NoResult]

\* scalar_one_or_none() of get_by_document_and_user: MultipleResultsFound
\* when more than one row matches.
scalar_one_or_none(found) ==
    IF Cardinality(found) > 1 THEN "raise"
    ELSE IF found = {} THEN "none" ELSE "one"

\* Rows whose create is still awaited.
PendingCreates == Cardinality({s \in Services : calls[s].pc = "join_create"})

\* datetime.utcnow() moves on.
tick ==
    /\ now + 15 <= MaxNow
    /\ now' = now + 15
    /\ UNCHANGED <<active_sessions, calls, store, svc, nsub, ot, wsvars, curvars, sockvars>>

\* join_document up to the await of session_repository.update (an active
\* session exists) or of session_repository.create (none exists).
join_document(s, document_id, user_id) ==
    /\ calls[s].pc = "idle"
    /\ LET found == get_by_document_and_user(document_id, user_id)
           c == [IdleCall EXCEPT !.document_id = document_id,
                                 !.user_id = user_id]
       IN CASE scalar_one_or_none(found) = "raise" ->
                 calls' = [calls EXCEPT ![s] =
                            [c EXCEPT !.result = [kind |-> "error"]]]
            [] scalar_one_or_none(found) = "none" ->
                 /\ Len(sessions) + PendingCreates < MaxSessions
                 /\ calls' = [calls EXCEPT ![s] =
                      [c EXCEPT !.pc = "join_create",
                                !.session = DocumentSession(0, document_id,
                                                            user_id, 0)]]
            [] scalar_one_or_none(found) = "one" ->
                 \E i \in found :
                   calls' = [calls EXCEPT ![s] =
                      [c EXCEPT !.pc = "join_update",
                                !.session = [session_to_domain(i) EXCEPT
                                               !.last_activity = now]]]
    /\ UNCHANGED <<active_sessions, now, store, svc, nsub, ot, wsvars, curvars, sockvars>>

\* session_repository.update commits; the entity join_document holds goes
\* into _active_sessions and is returned.
join_updated(s) ==
    /\ calls[s].pc = "join_update"
    /\ LET existing_session == calls[s].session
       IN /\ sessions' = [sessions EXCEPT ![existing_session.uuid] =
                [@ EXCEPT !.cursor_position = existing_session.cursor_position,
                          !.is_active = existing_session.is_active,
                          !.last_activity = existing_session.last_activity]]
          /\ active_sessions' = [active_sessions EXCEPT ![s] =
                SetHistory(@, existing_session.uuid, existing_session)]
          /\ calls' = [calls EXCEPT ![s] = [IdleCall EXCEPT !.result =
                [kind |-> "session", session |-> existing_session]]]
    /\ UNCHANGED <<cursors, cur, now, store, svc, nsub, ot, wsvars, sockvars>>

\* session_repository.create commits the new row; the created session goes
\* into _active_sessions, the operation history of the document is loaded
\* if the service has none, and the session is returned.
join_created(s) ==
    /\ calls[s].pc = "join_create"
    /\ LET session == calls[s].session
           created_session == [session EXCEPT !.uuid = Len(sessions) + 1]
       IN /\ sessions' = Append(sessions,
                [document_id |-> session.document_id,
                 user_id |-> session.user_id,
                 cursor_position |-> session.cursor_position,
                 is_active |-> session.is_active,
                 last_activity |-> session.last_activity])
          /\ active_sessions' = [active_sessions EXCEPT ![s] =
                SetHistory(@, created_session.uuid, created_session)]
          /\ \E history \in LoadedHistories(s, session.document_id) :
               svc' = [svc EXCEPT ![s].hist =
                         SetHistory(@, session.document_id, history)]
          /\ calls' = [calls EXCEPT ![s] = [IdleCall EXCEPT !.result =
                [kind |-> "session", session |-> created_session]]]
    /\ UNCHANGED <<cursors, cur, now, store, nsub, ot, wsvars, sockvars>>

\* leave_document up to the await of deactivate_session; without an active
\* session it returns False.
leave_document(s, document_id, user_id) ==
    /\ calls[s].pc = "idle"
    /\ LET found == get_by_document_and_user(document_id, user_id)
           c == [IdleCall EXCEPT !.document_id = document_id,
                                 !.user_id = user_id]
       IN CASE scalar_one_or_none(found) = "raise" ->
                 calls' = [calls EXCEPT ![s] =
                            [c EXCEPT !.result = [kind |-> "error"]]]
            [] scalar_one_or_none(found) = "none" ->
                 calls' = [calls EXCEPT ![s] =
                            [c EXCEPT !.result = [kind |-> "left",
                                                  success |-> FALSE]]]
            [] scalar_one_or_none(found) = "one" ->
                 \E i \in found :
                   calls' = [calls EXCEPT ![s] =
                      [c EXCEPT !.pc = "leave_deactivate",
                                !.session = [session_to_domain(i) EXCEPT
                                               !.is_active = FALSE]]]
    /\ UNCHANGED <<active_sessions, now, store, svc, nsub, ot, wsvars, curvars, sockvars>>

\* deactivate_session commits, the session leaves _active_sessions, the
\* cursor of the user is removed and leave_document returns True.
leave_deactivated(s) ==
    /\ calls[s].pc = "leave_deactivate"
    /\ LET session == calls[s].session
       IN /\ sessions' = [sessions EXCEPT ![session.uuid] =
                [@ EXCEPT !.is_active = FALSE, !.last_activity = now]]
          /\ active_sessions' = [active_sessions EXCEPT ![s] =
                [k \in DOMAIN @ \ {session.uuid} |-> @[k]]]
          /\ cursors' = {c \in cursors :
                ~(c.document_id = calls[s].document_id
                  /\ c.user_id = calls[s].user_id)}
          /\ calls' = [calls EXCEPT ![s] = [IdleCall EXCEPT !.result =
                [kind |-> "left", success |-> TRUE]]]
    /\ UNCHANGED <<cur, now, store, svc, nsub, ot, wsvars, sockvars>>

\* DocumentSessionRepository.get_active_sessions
get_active_sessions(document_id) ==
    {i \in DOMAIN sessions : /\ sessions[i].document_id = document_id
                             /\ sessions[i].is_active}

\* _active_sessions after "for session in db_sessions:
\* self._active_sessions[session.uuid] = session".
cache_sessions(cache, rows) ==
    [k \in DOMAIN cache \cup rows |->
        IF k \in rows THEN session_to_domain(k) ELSE cache[k]]

\* get_active_users: the active rows of the document go into
\* _active_sessions, and list(self._active_sessions.values()) is returned.
get_active_users(s, document_id) ==
    /\ calls[s].pc = "idle"
    /\ LET cache == cache_sessions(active_sessions[s],
                                   get_active_sessions(document_id))
       IN /\ active_sessions' = [active_sessions EXCEPT ![s] = cache]
          /\ calls' = [calls EXCEPT ![s] = [IdleCall EXCEPT
                !.document_id = document_id,
                !.result = [kind |-> "users",
                            sessions |-> {cache[k] : k \in DOMAIN cache}]]]
    /\ UNCHANGED <<now, store, svc, nsub, ot, wsvars, curvars, sockvars>>

\* cleanup_inactive_sessions: rows idle for more than 30 minutes are marked
\* inactive, entries of _active_sessions idle for more than 30 minutes are
\* deleted, old cursors are deleted (updated_at is a column of the base
\* model: any row may be old).  Nothing is sent to the ConnectionManager.
cleanup_inactive_sessions(s) ==
    /\ calls[s].pc = "idle"
    /\ LET cutoff_time == now - IdleMinutes
           idle == {i \in DOMAIN sessions :
                      sessions[i].last_activity < cutoff_time
                      /\ sessions[i].is_active}
           inactive_sessions ==
               {k \in DOMAIN active_sessions[s] :
                  now - active_sessions[s][k].last_activity > IdleMinutes}
       IN /\ sessions' = [i \in DOMAIN sessions |->
                IF i \in idle THEN [sessions[i] EXCEPT !.is_active = FALSE]
                ELSE sessions[i]]
          /\ active_sessions' = [active_sessions EXCEPT ![s] =
                [k \in DOMAIN @ \ inactive_sessions |-> @[k]]]
          /\ cursors' \in SUBSET cursors
          /\ calls' = [calls EXCEPT ![s] = [IdleCall EXCEPT !.result =
                [kind |-> "cleaned",
                 count |-> Cardinality(idle) + Cardinality(inactive_sessions)
                           + Cardinality(cursors \ cursors')]]]
    /\ UNCHANGED <<cur, now, store, svc, nsub, ot, wsvars, sockvars>>

\* CollaborationService.__init__: empty _active_sessions.
SessInit ==
    /\ now = 0
    /\ active_sessions = [s \in Services |-> <<>>]
    /\ calls = [s \in Services |-> IdleCall]

\* ------------------------- the ConnectionManager, websocket by websocket

\* The websockets a run opens; any of them may carry any user_id.
Websockets == {"k1", "k2", "k3"}
NoSocket == [pc |-> "idle", doc |-> "d1", user_id |-> NoUser, inbox |-> <<>>]

\* connections[d] is active_connections[d] as the dict it is: user_id ->
\* websocket.  sockets[k] is the endpoint of websocket k and the frames
\* sent to it.
SocketInit ==
    /\ connections = [d \in WSDocs |-> <<>>]
    /\ sockets = [k \in Websockets |-> NoSocket]

\* broadcast_to_document when every send succeeds at once: the message goes
\* to the websocket registered for each user but exclude_user.
deliver(socks, conns, document_id, message, exclude_user) ==
    LET to == {conns[document_id][v] :
                 v \in DOMAIN conns[document_id] \ {exclude_user}}
    IN [k \in Websockets |->
          IF k \in to THEN [socks[k] EXCEPT !.inbox = Append(@, message)]
          ELSE socks[k]]

\* ConnectionManager.connect up to the send of the welcome message:
\* "self.active_connections[document_id][user_id] = websocket" replaces
\* the websocket an earlier connection of user_id had put there.
socket_connect(k, d, u) ==
    /\ sockets[k].pc = "idle"
    /\ connections' = [connections EXCEPT ![d] = SetHistory(@, u, k)]
    /\ document_operations' =
          IF DOMAIN connections[d] = {}
          THEN [document_operations EXCEPT ![d] = <<>>]
          ELSE document_operations
    /\ sockets' = [sockets EXCEPT ![k] =
          [NoSocket EXCEPT !.pc = "welcome", !.doc = d, !.user_id = u]]
    /\ UNCHANGED <<active_connections, task, inbox, dead, owed, wsn,
                   store, svc, nsub, ot, curvars, sessvars>>

\* The welcome message is sent and user_joined is broadcast: connect
\* returns, the endpoint waits in receive_text.
socket_welcome(k) ==
    /\ sockets[k].pc = "welcome"
    /\ sockets' = deliver(
          [sockets EXCEPT ![k].pc = "receive",
                          ![k].inbox = Append(@, Frame("connected",
                                                  sockets[k].user_id, 0))],
          connections, sockets[k].doc,
          Frame("user_joined", sockets[k].user_id, 0), sockets[k].user_id)
    /\ UNCHANGED <<connections, wsvars, store, svc, nsub, ot, curvars, sessvars>>

\* An "operation" message is received: handle_operation appends it and
\* broadcasts it to the other users.
socket_operation(k) ==
    /\ sockets[k].pc = "receive"
    /\ Len(document_operations[sockets[k].doc]) < MaxWsOps
    /\ LET operation == Frame("operation", sockets[k].user_id,
                              Len(document_operations[sockets[k].doc]) + 1)
       IN /\ document_operations' =
                [document_operations EXCEPT ![sockets[k].doc] =
                                               Append(@, operation)]
          /\ sockets' = deliver(sockets, connections, sockets[k].doc,
                                operation, sockets[k].user_id)
    /\ UNCHANGED <<connections, active_connections, task, inbox, dead, owed,
                   wsn, store, svc, nsub, ot, curvars, sessvars>>

\* receive_text raises WebSocketDisconnect: disconnect(document_id,
\* user_id) deletes the entry of user_id, whichever websocket it holds, and
\* the operations of a document left without entries; user_left is
\* broadcast.
socket_disconnect(k) ==
    /\ sockets[k].pc = "receive"
    /\ LET d == sockets[k].doc
           u == sockets[k].user_id
           left == [v \in DOMAIN connections[d] \ {u} |-> connections[d][v]]
           conns == [connections EXCEPT ![d] = left]
       IN /\ connections' = conns
          /\ document_operations' =
                IF DOMAIN connections[d] # {} /\ DOMAIN left = {}
                THEN [document_operations EXCEPT ![d] = <<>>]
                ELSE document_operations
          /\ sockets' = deliver([sockets EXCEPT ![k].pc = "closed"], conns, d,
                                Frame("user_left", u, 0), NoUser)
    /\ UNCHANGED <<active_connections, task, inbox, dead, owed, wsn,
                   store, svc, nsub, ot, curvars, sessvars>>

\* ---------------------------------------------------------- specifications

Init ==
    /\ store = <<>>
    /\ svc = [s \in Services |-> NewService]
    /\ nsub = 0
    /\ ot = OTIdle
    /\ WSInit
    /\ SessInit
    /\ CursorInit
    /\ SocketInit

\* keep_last values the truncation is run with.
KeepLast == 0..1

\* One service at a time: requests handled one after the other.
Serial == {"s1"}

Next ==
    \/ \E s \in Serial : new_service(s)
    \/ \E s \in Serial, doc \in Docs, od \in OperationCreate :
         apply_operation(s, doc, od)
    \/ \E s \in Serial : apply_operation_created(s)
    \/ \E s \in Serial : apply_operation_failed(s)
    \/ \E s \in Serial, doc \in Docs, ops \in BatchOperations :
         apply_operation_batch(s, doc, ops)
    \/ \E s \in Serial : batch_created(s)
    \/ \E s \in Serial : batch_failed(s)
    \/ \E s \in Serial, doc \in Id, v \in 0..MaxVer : sync_document(s, doc, v)
    \/ \E doc \in Id, k \in KeepLast : delete_old_operations(doc, k)

Spec == Init /\ [][Next]_vars

\* POST /documents/{document_uuid}/operations, up to the await of create:
\* the handler builds its own CollaborationService and sets author_id to
\* the default user.
DefaultUser == "u1"

http_apply_operation(s, document_uuid, operation_data) ==
    /\ svc[s].hist = <<>>
    /\ apply_operation(s, document_uuid,
                       [operation_data EXCEPT !.author_id = DefaultUser])

\* Requests in flight at the same time, each with its own service.
NextConcurrent ==
    \/ \E s \in Services : new_service(s)
    \/ \E s \in Services, doc \in Docs, od \in OperationCreate :
         http_apply_operation(s, doc, od)
    \/ \E s \in Services : apply_operation_created(s)
    \/ \E s \in Services : apply_operation_failed(s)

SpecConcurrent == Init /\ [][NextConcurrent]_vars

\* The transformation harness: two concurrent operations on one base text.
InitOT ==
    /\ store = <<>>
    /\ svc = [s \in Services |-> NewService]
    /\ nsub = 0
    /\ OTInit
    /\ WSInit
    /\ SessInit
    /\ CursorInit
    /\ SocketInit

NextOT == OTTransform \/ OTApply

SpecOT == InitOT /\ [][NextOT]_vars

\* The websocket hub: each user u of DOMAIN D connects to a document of
\* D[u], the users of Editors send operations, the clients of Leavers send
\* a message the loop cannot handle or go away.
NextHub(D, Editors, Leavers) ==
    \/ \E u \in DOMAIN D : \E d \in D[u] : ws_connect(u, d)
    \/ \E u \in DOMAIN D : ws_welcome(u)
    \/ \E u \in DOMAIN D : ws_send(u)
    \/ \E u \in Editors : ws_receive_operation(u)
    \/ \E u \in Leavers : ws_receive_invalid(u)
    \/ \E u \in Leavers : ws_client_gone(u)
    \/ \E u \in DOMAIN D : ws_receive_disconnect(u)

\* Three users, one of them on either document, one editor.
NextWS ==
    NextHub([u \in {"w1", "w2", "w3"} |->
                IF u = "w3" THEN {"d1", "d2"} ELSE {"d1"}],
            {"w1"}, {"w1", "w2", "w3"})

SpecWS == Init /\ [][NextWS]_vars

\* Four users on one document whose clients stay: two of them edit.
NextOrder ==
    \/ \E u \in WSUsers : ws_connect(u, "d1")
    \/ \E u \in WSUsers : ws_welcome(u)
    \/ \E u \in WSUsers : ws_send(u)
    \/ \E u \in {"w1", "w2"} : ws_receive_operation(u)

SpecOrder == Init /\ [][NextOrder]_vars

\* The cursor endpoints of the HTTP API, one request at a time.
NextCursor ==
    \/ \E doc \in Docs : http_join_document(doc)
    \/ \E doc \in Docs : http_leave_document(doc)
    \/ \E doc \in Docs, cursor_data \in CursorData :
         http_update_cursor(doc, cursor_data)
    \/ update_cursor_session
    \/ update_cursor_cursor

SpecCursor == Init /\ [][NextCursor]_vars

\* POST /documents/{document_uuid}/operations/batch up to the first await
\* of create: the handler builds its own CollaborationService and sets
\* batch.document_id.
http_apply_operation_batch(s, document_uuid, operations) ==
    /\ svc[s].hist = <<>>
    /\ apply_operation_batch(s, document_uuid, operations)

\* A batch and other submits in flight at the same time, each with its own
\* service, on a store whose writes succeed.  The batches go to the document
\* whose uuid their rows are filed under (create: document_id = author_id).
NextBatch ==
    \/ \E s \in Services : new_service(s)
    \/ \E s \in Services, doc \in Users, ops \in BatchOperations :
         http_apply_operation_batch(s, doc, ops)
    \/ \E s \in Services : batch_created(s)
    \/ \E s \in Services, doc \in Docs, od \in OperationCreate :
         http_apply_operation(s, doc, od)
    \/ \E s \in Services : apply_operation_created(s)

SpecBatch == Init /\ [][NextBatch]_vars

\* Presence: two users on one websocket document, one edits and one moves
\* its cursor, next to the cursor endpoint and the operation endpoint of
\* the HTTP API (one request of each at a time, position-only cursor
\* bodies, inserts of "a" at position 0).
NextPresence ==
    \/ \E u \in {"w1", "w2"} : ws_connect(u, "d1")
    \/ \E u \in {"w1", "w2"} : ws_welcome(u)
    \/ \E u \in {"w1", "w2"} : ws_send(u)
    \/ ws_receive_operation("w2")
    \/ ws_receive_cursor("w1")
    \/ \E u \in {"w1", "w2"} : ws_client_gone(u)
    \/ \E u \in {"w1", "w2"} : ws_receive_disconnect(u)
    \/ \E doc \in Docs : http_join_document(doc)
    \/ \E doc \in Docs :
         \E cursor_data \in {cd \in CursorData : DOMAIN cd = {"position"}} :
           http_update_cursor(doc, cursor_data)
    \/ update_cursor_session
    \/ update_cursor_cursor
    \/ new_service("s1")
    \/ \E doc \in Docs :
         \E od \in {o \in OperationCreate :
                      /\ o.type = INSERT /\ o.content = <<"a">>
                      /\ o.position = 0 /\ o.version = 0} :
           http_apply_operation("s1", doc, od)
    \/ apply_operation_created("s1")

SpecPresence == Init /\ [][NextPresence]_vars

\* ------------------------------------------------------------------ claims

\* C1: every in-memory history, loaded or built by apply_operation and
\* apply_operation_batch, has operations[i].version = i+1 (1-based: i) and
\* current_version = number of operations.
C1_VersionsContiguous ==
    \A s \in Services : \A k \in DOMAIN svc[s].hist :
      LET h == svc[s].hist[k]
      IN /\ h.current_version = Len(h.operations)
         /\ \A i \in 1..Len(h.operations) : h.operations[i].version = i

\* A batch of two accepted on top of a history loaded with one operation.
C1_Witness ==
    \E s \in Services :
      /\ svc[s].result.kind = "batch"
      /\ Len(svc[s].result.processed_operations) = 2
      /\ svc[s].result.before.current_version = 1
      /\ Len(svc[s].hist[svc[s].result.key].operations) = 3

\* C2: no two persisted operations of one document share a version, also
\* when submits are in flight at the same time.
C2_UniquePersistedVersions ==
    \A i, j \in DOMAIN store :
      (i # j /\ store[i].document_id = store[j].document_id)
        => store[i].version # store[j].version

\* C3: TP1. apply(T(a,b), apply(b,S)) = apply(T(b,a), apply(a,S)).
C3_TP1 ==
    ot.pc = "applied" => ot.afterB = ot.afterA

\* The texts a replay of the persisted rows of document_id, in ascending
\* version order, onto the empty text can give.
Replays(document_id) ==
    {apply_all([i \in DOMAIN f |-> to_domain(store[f[i]])], <<>>) :
       f \in VersionOrders(document_id)}

\* C4: after an accepted submit to document D, replaying D's persisted
\* operations onto the empty text gives the text of D's in-memory history.
C4_ReplayConsistency ==
    \A s \in Services :
      LET r == svc[s].result
      IN (/\ r.kind \in {"applied", "batch"}
          /\ r.doc \in DOMAIN svc[s].hist)
         => \A t \in Replays(r.doc) :
              t = get_current_text(svc[s].hist[r.doc], <<>>)

\* The history a service holds for k, if any.
HistoryOf(r, k) ==
    IF k \in DOMAIN r.hist THEN <<r.hist[k]>> ELSE <<>>

RowsOf(rows, k) ==
    LET mine(row) == row.document_id = k IN SelectSeq(rows, mine)

\* C5: a submit to document D changes the history and the persisted rows of
\* no other key.
C5_DocumentIsolation ==
    [][\A s \in Services : \A k \in Id :
         /\ (svc[s].pc = "idle" /\ svc'[s].pc # "idle" /\ k # svc'[s].doc)
              => HistoryOf(svc'[s], k) = HistoryOf(svc[s], k)
         /\ (svc[s].pc # "idle" /\ k # svc[s].doc)
              => RowsOf(store', k) = RowsOf(store, k)]_vars

\* C6: when the write fails the operation is not in the history: after a
\* failed single submit the history is what it was before it, and after a
\* batch the history grew by the accepted elements only.
C6_FailedPersistNotInHistory ==
    \A s \in Services :
      LET r == svc[s].result
      IN /\ r.kind = "error" => svc[s].hist[r.key] = r.before
         /\ r.kind = "batch" =>
              Len(svc[s].hist[r.key].operations)
                = Len(r.before.operations) + Len(r.processed_operations)

MaxVersion(rows) ==
    IF DOMAIN rows = {} THEN 0
    ELSE LET i == CHOOSE x \in DOMAIN rows :
                    \A y \in DOMAIN rows : rows[x].version >= rows[y].version
         IN rows[i].version

\* C7: a history rebuilt from the store reports the highest persisted
\* version, and the sync that rebuilt it returns the persisted operations
\* with version > known_version, versions kept.
C7_CrashRecovery ==
    [][\A s \in Services :
         (/\ svc'[s] # svc[s]
          /\ svc'[s].result.kind = "sync"
          /\ svc'[s].result.loaded)
         => LET r == svc'[s].result
                newer(op) == op.version > r.client_version
            IN /\ r.current_version = MaxVersion(RowsOf(store, r.doc))
               /\ \E f \in VersionOrders(r.doc) :
                    r.pending_operations =
                      SelectSeq([i \in DOMAIN f |-> to_domain(store[f[i]])],
                                newer)]_vars

\* The text of history h at version v.
TextAt(h, v) == apply_all(SubSeq(h.operations, 1, v), <<>>)

\* C8: sync(v) returns the operations after the first v of the history, in
\* order, and applying them to the text at version v gives the text sync(0)
\* gives on the empty text.
C8_Sync ==
    \A s \in Services :
      /\ LET r == svc[s].result
         IN r.kind = "sync" =>
              LET h == svc[s].hist[r.doc]
              IN /\ r.pending_operations =
                      SubSeq(h.operations, r.client_version + 1,
                             Len(h.operations))
                 /\ r.current_version = h.current_version
      /\ \A k \in DOMAIN svc[s].hist :
           LET h == svc[s].hist[k]
           IN \A v \in 0..h.current_version :
                apply_all(get_operations_since(h, v), TextAt(h, v))
                  = apply_all(get_operations_since(h, 0), <<>>)

\* A sync from version 1 that returns a proper, non-empty suffix.
C8_Witness ==
    \E s \in Services :
      /\ svc[s].result.kind = "sync"
      /\ svc[s].result.client_version = 1
      /\ Len(svc[s].result.pending_operations) = 2
      /\ get_current_text(svc[s].hist[svc[s].result.doc], <<>>) # <<>>

\* C9: every operation of a history fits the text it is applied to.
C9_PositionInvariants ==
    \A s \in Services : \A k \in DOMAIN svc[s].hist :
      LET h == svc[s].hist[k]
      IN \A i \in 1..Len(h.operations) :
           LET op == h.operations[i]
               before == TextAt(h, i - 1)
           IN /\ op.operation_type = INSERT
                   => (0 <= op.position /\ op.position <= Len(before))
              /\ op.operation_type = DELETE
                   => op.position + op.length <= Len(before)

\* The version before the oldest persisted operation of document_id.
RetainedFloor(document_id) ==
    LET idx == DocRows(document_id)
    IN IF idx = {} THEN 0
       ELSE LET i == CHOOSE x \in idx :
                       \A y \in idx : store[x].version <= store[y].version
            IN store[i].version - 1

\* C10: a submit whose base version is below the retained floor is rejected
\* and changes nothing.
C10_StaleBaseRejected ==
    [][\A s \in Services, doc \in Docs, od \in OperationCreate :
         (/\ od.version < RetainedFloor(od.author_id)
          /\ apply_operation(s, doc, od))
         => (/\ svc'[s].hist = svc[s].hist
             /\ svc'[s].pc = "idle"
             /\ svc'[s].result.kind = "error")]_vars

Range(seq) == {seq[i] : i \in DOMAIN seq}

\* The step in which the endpoint of u is done with an "operation" message:
\* handle_operation returns or raises.
OperationHandled(u) ==
    /\ task'[u].message.type = "operation"
    /\ task'[u].pc # "send"
    /\ \/ task[u].pc = "send" /\ task[u].message.type = "operation"
       \/ wsn'.op[u] # wsn.op[u]

\* C11: when the endpoint of user u is done with an operation received on
\* document d, every user that was connected to d when the operation was
\* received and is still connected, with its client there, has been sent
\* the operation; no user is ever sent its own operation, and no user is
\* sent an operation of a document it is not connected to.
C11_OperationBroadcast ==
    [][/\ \A u \in WSUsers : OperationHandled(u) =>
             \A r \in task'[u].audience :
                (r \in Keys(active_connections'[task'[u].doc]) /\ r \notin dead')
                   => task'[u].message \in Range(inbox'[r])
       /\ \A r \in WSUsers : \A f \in Range(inbox'[r]) :
             f.type = "operation" =>
                f.user_id # r /\ task'[f.user_id].doc = task'[r].doc]_vars

C14_UserLeftSent ==
    \A p \in owed : task[p[1]].pc # "closed" \/ p[2] \in dead

\* C16: the step in which the last subscriber of a document leaves keeps
\* the operations of the document (no grace period has elapsed within one
\* step).
C16_DrainingKeepsOperations ==
    [][\A d \in WSDocs :
         (Keys(active_connections[d]) # {} /\ Keys(active_connections'[d]) = {})
            => document_operations'[d] = document_operations[d]]_vars

\* Position of frame f in the sequence q (0 when it is not there).
IndexOf(q, f) ==
    IF f \in Range(q) THEN CHOOSE i \in DOMAIN q : q[i] = f ELSE 0

\* C12: two operations that two users have both been sent reached both in
\* the same order, the order in which document_operations lists them.
C12_SameOrder ==
    \A r1 \in WSUsers, r2 \in WSUsers :
      \A a \in Range(inbox[r1]), b \in Range(inbox[r1]) :
        (/\ a.type = "operation" /\ b.type = "operation"
         /\ a \in Range(inbox[r2]) /\ b \in Range(inbox[r2])
         /\ IndexOf(inbox[r1], a) < IndexOf(inbox[r1], b))
        => /\ IndexOf(inbox[r2], a) < IndexOf(inbox[r2], b)
           /\ LET ops == document_operations[task[r1].doc]
              IN (a \in Range(ops) /\ b \in Range(ops))
                    => IndexOf(ops, a) < IndexOf(ops, b)

\* C17: the versions of the elements a batch accepted are consecutive, and
\* the store holds, for the document of the batch, no more rows with one of
\* these versions than the batch wrote: no other submit was given one.
C17_BatchAtomic ==
    \A s \in Services :
      LET r == svc[s].result
          n == IF r.kind = "batch" THEN Len(r.processed_operations) ELSE 0
          versions == {r.processed_operations[i].version : i \in 1..n}
      IN n > 0 =>
           /\ \A i \in 1..(n - 1) :
                 r.processed_operations[i + 1].version
                    = r.processed_operations[i].version + 1
           /\ Cardinality({i \in DOMAIN store :
                              /\ store[i].document_id = r.key
                              /\ store[i].version \in versions}) <= n

\* C18: when a batch returns, the history of its document is the history
\* the batch found followed by the accepted elements (a failed element is
\* not in it), final_version is the version before the batch plus the number
\* of accepted elements, and every element is either accepted or reported
\* by its index.
C18_BatchFailedElement ==
    \A s \in Services :
      LET r == svc[s].result
      IN r.kind = "batch" =>
           /\ svc[s].hist[r.key].operations
                 = r.before.operations \o r.processed_operations
           /\ r.final_version
                 = r.before.current_version + Len(r.processed_operations)
           /\ \A i \in 1..Len(r.failed_operations) :
                 r.failed_operations[i] \in 0..1

\* C19: the session entity a cursor update works on has
\* selection_start <= selection_end.
C19_SelectionOrdered ==
    cur.session.selection_start <= cur.session.selection_end

\* C20: for two inserts a (of the lower author) and b, T(a, b) keeps a
\* where a.position < b.position and moves it by |b.content| where
\* a.position > b.position, likewise T(b, a); on a tie a stays and b moves
\* by |a.content|.
C20_InsertInsert ==
    (ot.pc = "transformed" /\ ot.a.operation_type = INSERT
                           /\ ot.b.operation_type = INSERT) =>
      /\ ot.a.position < ot.b.position =>
           /\ ot.ta.position = ot.a.position
           /\ ot.tb.position = ot.b.position + Len(ot.a.content)
      /\ ot.a.position > ot.b.position =>
           /\ ot.ta.position = ot.a.position + Len(ot.b.content)
           /\ ot.tb.position = ot.b.position
      /\ ot.a.position = ot.b.position =>
           /\ ot.ta.position = ot.a.position
           /\ ot.tb.position = ot.b.position + Len(ot.a.content)

\* A step of the endpoint of u that handles a "cursor" message.
WsCursorStep(u) ==
    \/ ws_receive_cursor(u)
    \/ task[u].message.type = "cursor" /\ ws_send(u)

SampleText == <<"a", "b", "c", "d", "e", "f">>

\* Concurrent operations on SampleText: the valid ones, and inserts of "X".
SampleOps(author) ==
    ValidOps(SampleText, author)
    \cup {Operation(INSERT, p, <<"X">>, 0, author, 0) : p \in 0..Len(SampleText)}

InitOTSample ==
    /\ store = <<>>
    /\ svc = [s \in Services |-> NewService]
    /\ nsub = 0
    /\ \E a \in SampleOps("author_a"), b \in SampleOps("author_b") :
         ot = [pc |-> "input", S |-> SampleText, a |-> a, b |-> b]
    /\ WSInit
    /\ SessInit
    /\ CursorInit
    /\ SocketInit

SpecOTSample == InitOTSample /\ [][NextOT]_vars

\* C21: T(INSERT a, DELETE b) keeps a.position when a.position <=
\* b.position, moves it left by b.length when a.position > b.position +
\* b.length, and otherwise puts it at b.position; on "abcdef", DELETE pos=1
\* len=3 first and INSERT pos=2 "X" on the same base give the insert at
\* position 1 and the text "aXef".
C21_InsertDelete ==
    (ot.pc \in {"transformed", "applied"}
       /\ ot.a.operation_type = INSERT /\ ot.b.operation_type = DELETE)
    => /\ ot.ta.position =
            IF ot.a.position <= ot.b.position THEN ot.a.position
            ELSE IF ot.a.position > ot.b.position + ot.b.length
            THEN ot.a.position - ot.b.length
            ELSE ot.b.position
       /\ ot.ta.operation_type = INSERT /\ ot.ta.content = ot.a.content
       /\ (ot.pc = "applied" /\ ot.S = SampleText
             /\ ot.a.position = 2 /\ ot.a.content = <<"X">>
             /\ ot.b.position = 1 /\ ot.b.length = 3)
          => /\ ot.ta.position = 1
             /\ ot.afterB = <<"a", "X", "e", "f">>

C21_Witness ==
    /\ ot.pc = "applied" /\ ot.S = SampleText
    /\ ot.a.operation_type = INSERT /\ ot.a.position = 2
    /\ ot.a.content = <<"X">>
    /\ ot.b.operation_type = DELETE /\ ot.b.position = 1 /\ ot.b.length = 3
    /\ ot.afterB = <<"a", "X", "e", "f">>

\* Text S without the characters of [position, position + length) and with
\* content put where index at of S was.
EditedText(S, position, length, at, content) ==
    LET kept(lo, hi) ==
          LET in(i) == lo < i /\ i <= hi
                       /\ ~(position < i /\ i <= position + length)
              F[i \in 0..Len(S)] ==
                IF i = 0 THEN <<>>
                ELSE IF in(i) THEN Append(F[i - 1], S[i]) ELSE F[i - 1]
          IN F[Len(S)]
    IN kept(0, at) \o content \o kept(at, Len(S))

\* C22: T(DELETE a, INSERT b): a.transform(b) applied after b removes
\* exactly the characters of S that a targeted and keeps all of b's
\* content; a is unchanged when it ends at or before b.position and is
\* shifted by |b.content| when a.position >= b.position.
C22_DeleteInsert ==
    (ot.pc = "applied"
       /\ ot.a.operation_type = DELETE /\ ot.b.operation_type = INSERT)
    => /\ ot.a.position + ot.a.length <= ot.b.position
          => (ot.ta.position = ot.a.position /\ ot.ta.length = ot.a.length)
       /\ ot.a.position >= ot.b.position
          => (ot.ta.position = ot.a.position + Len(ot.b.content)
              /\ ot.ta.length = ot.a.length)
       /\ ot.afterB = EditedText(ot.S, ot.a.position, ot.a.length,
                                 ot.b.position, ot.b.content)

\* The position and length T(DELETE a, DELETE b) gives a.
DeleteDeleteRule(a, b) ==
    LET ae == a.position + a.length
        be == b.position + b.length
        overlap == Min(ae, be) - Max(a.position, b.position)
    IN IF ae <= b.position THEN <<a.position, a.length>>
       ELSE IF a.position >= be THEN <<a.position - b.length, a.length>>
       ELSE <<Min(a.position, b.position), Max(0, a.length - overlap)>>

\* C23: T(DELETE a, DELETE b): a is unchanged when it ends at or before
\* b.position, shifted left by b.length when it starts at or after b's end,
\* and on overlap gets position min(a.position, b.position) and length
\* max(0, a.length - overlap); a result of length 0 is a RETAIN, never a
\* DELETE of length 0.
C23_DeleteDelete ==
    (ot.pc \in {"transformed", "applied"}
       /\ ot.a.operation_type = DELETE /\ ot.b.operation_type = DELETE)
    => /\ <<ot.ta.position, ot.ta.length>> = DeleteDeleteRule(ot.a, ot.b)
       /\ ot.ta.operation_type = IF ot.ta.length = 0 THEN RETAIN ELSE DELETE

\* --------------------------------------- transformation of any operation

\* Every operation OperationBase admits within the bounds: position and
\* length >= 0, a DELETE without content; a default (content "", length 0)
\* is not validated, so an INSERT may be empty and a DELETE of length 0.
AdmittedOps(author, version) ==
    {Operation(t, p, c, l, author, version) :
        t \in {INSERT, RETAIN}, p \in 0..2, c \in {<<>>, <<"a">>}, l \in 0..2}
    \cup
    {Operation(DELETE, p, <<>>, l, author, version) : p \in 0..2, l \in 0..2}

InitOTAdmitted ==
    /\ store = <<>>
    /\ svc = [s \in Services |-> NewService]
    /\ nsub = 0
    /\ \E a \in AdmittedOps("author_a", 1), b \in AdmittedOps("author_b", 2) :
         ot = [pc |-> "input", S |-> <<"a", "b">>, a |-> a, b |-> b]
    /\ WSInit
    /\ SessInit
    /\ CursorInit
    /\ SocketInit

SpecOTAdmitted == InitOTAdmitted /\ [][NextOT]_vars

SampleCreate ==
    {[type |-> INSERT, position |-> p, content |-> c, length |-> 0,
      author_id |-> "u1", version |-> v] :
        p \in {0, 2}, c \in {<<"a", "b">>, <<"c", "d">>}, v \in 0..MaxVer}
    \cup
    {[type |-> DELETE, position |-> p, content |-> <<>>, length |-> 1,
      author_id |-> "u1", version |-> v] : p \in 0..1, v \in 0..MaxVer}

\* The batch a client is about to send: OperationBatch.operations.
InitBatchSample ==
    /\ store = <<>>
    /\ svc = [s \in Services |-> NewService]
    /\ nsub = 0
    /\ \E o1 \in SampleCreate, o2 \in SampleCreate :
         ot = [pc |-> "batch", operations |-> <<o1, o2>>]
    /\ WSInit
    /\ SessInit
    /\ CursorInit
    /\ SocketInit

\* One service: single submits, then the batch.
NextBatchSample ==
    \/ \E od \in SampleCreate :
         /\ store = <<>>
         /\ apply_operation("s1", "u1", od)
    \/ apply_operation_created("s1")
    \/ /\ svc["s1"].result.kind # "batch"
       /\ apply_operation_batch("s1", "u1", ot.operations)
    \/ batch_created("s1")

SpecBatchSample == InitBatchSample /\ [][NextBatchSample]_vars

\* The operation a batch element is accepted as when it is transformed once
\* against each operation of history newer than its base, then once against
\* each earlier member of its batch, and stamped with the next version.
TransformedOnce(od, history, processed) ==
    [transform_each(
        transform_against(FromCreate(od), history.operations, od.version),
        processed)
     EXCEPT !.version = history.current_version + Len(processed) + 1]

\* C24: each batch element is transformed exactly once against each history
\* operation newer than its base and exactly once against each earlier
\* accepted member of its batch; the batch [INSERT pos=0 "ab", INSERT pos=2
\* "cd"] at base 0 on an empty document is accepted as v1 and v2, the second
\* at a position inside the text, and the text is "abcd".
C24_TransformedOnce ==
    LET r == svc["s1"]
    IN /\ r.pc = "batch_create"
          => r.pending = TransformedOnce(ot.operations[r.index + 1],
                                         r.pre, r.processed)
       /\ (r.result.kind = "batch" /\ r.result.before.operations = <<>>
             /\ ot.operations[1] = [type |-> INSERT, position |-> 0,
                    content |-> <<"a", "b">>, length |-> 0,
                    author_id |-> "u1", version |-> 0]
             /\ ot.operations[2] = [type |-> INSERT, position |-> 2,
                    content |-> <<"c", "d">>, length |-> 0,
                    author_id |-> "u1", version |-> 0])
          => LET p == r.result.processed_operations
             IN /\ Len(p) = 2 /\ p[1].version = 1 /\ p[2].version = 2
                /\ p[2].position <= Len(apply_to(p[1], <<>>))
                /\ get_current_text(r.hist["u1"], <<>>)
                     = <<"a", "b", "c", "d">>

\* Two services (two requests, or two long-lived holders of the service)
\* joining, leaving and listing the users of documents.
NextSessions ==
    \E s \in Services :
      \/ \E d \in WSDocs, u \in SessionUsers : join_document(s, d, u)
      \/ join_updated(s)
      \/ join_created(s)
      \/ \E d \in WSDocs, u \in SessionUsers : leave_document(s, d, u)
      \/ leave_deactivated(s)
      \/ \E d \in WSDocs : get_active_users(s, d)

SpecSessions == Init /\ [][NextSessions]_vars

\* C26: after any joins and leaves, also overlapping ones, there is at most
\* one active session per (document, user).
C26_OneActiveSession ==
    \A d \in WSDocs, u \in SessionUsers :
      Cardinality(get_by_document_and_user(d, u)) <= 1

\* C27: get_active_users(d) returns only sessions of document d that are
\* active at the time of the call, whatever the service handled before.
C27_ActiveUsersOfDocument ==
    [][\A s \in Services, d \in WSDocs :
         get_active_users(s, d)
         => \A session \in calls'[s].result.sessions :
              /\ session.document_id = d
              /\ sessions[session.uuid].is_active]_vars

\* Idle sessions: users join document d1 through service s1 and connect to
\* its hub, time passes, the service runs the cleanup.
NextIdle ==
    \/ \E u \in SessionUsers : join_document("s1", "d1", u)
    \/ join_updated("s1")
    \/ join_created("s1")
    \/ tick
    \/ cleanup_inactive_sessions("s1")
    \/ \E u \in SessionUsers : ws_connect(u, "d1")
    \/ \E u \in SessionUsers : ws_welcome(u)
    \/ \E u \in SessionUsers : ws_send(u)

SpecIdle == Init /\ [][NextIdle]_vars

\* The session of row i has been idle for more than 30 minutes.
IdleSession(i) == sessions[i].last_activity < now - IdleMinutes

\* Users connected to the hub of the document whose own session of it is
\* active and not idle.
RemainingParticipants(document_id) ==
    {v \in Keys(active_connections[document_id]) :
       \E j \in get_by_document_and_user(document_id, v) : ~IdleSession(j)}

\* C25: cleanup_inactive_sessions at time now marks every session idle for
\* more than 30 minutes inactive and removes it from the in-memory active
\* set, leaves every other session active and unchanged, and announces each
\* removal to the remaining participants of the document with user_left.
C25_IdleCleanup ==
    [][\A s \in Services :
         cleanup_inactive_sessions(s)
         => \A i \in DOMAIN sessions :
              /\ (sessions[i].is_active /\ IdleSession(i))
                 => /\ ~sessions'[i].is_active
                    /\ i \notin DOMAIN active_sessions'[s]
                    /\ \A v \in RemainingParticipants(sessions[i].document_id) :
                         \E k \in Len(inbox[v]) + 1 .. Len(inbox'[v]) :
                           inbox'[v][k] = Frame("user_left",
                                                sessions[i].user_id, 0)
              /\ (sessions[i].is_active /\ ~IdleSession(i))
                 => sessions'[i] = sessions[i]
      ]_vars

\* C29: a broadcast_to_document suspended at a send completes without
\* error, also when another user connects to or disconnects from the
\* document meanwhile, and has then delivered the message to every user
\* that stayed connected throughout.
C29_SuspendedBroadcastCompletes ==
    [][\A u \in WSUsers :
         (task[u].pc = "send" /\ task'[u].pc # "send")
         => /\ task'[u].ended = "returned"
            /\ task'[u].message.type = "operation"
               => \A r \in task'[u].audience :
                    (r \in Keys(active_connections'[task'[u].doc])
                       /\ r \notin dead')
                    => task'[u].message \in Range(inbox'[r])]_vars

\* Websockets of two users on one document; a user may connect twice.
NextSockets ==
    \/ \E k \in Websockets, u \in SessionUsers : socket_connect(k, "d1", u)
    \/ \E k \in Websockets : socket_welcome(k)
    \/ \E k \in Websockets : socket_operation(k)
    \/ \E k \in Websockets : socket_disconnect(k)

SpecSockets == Init /\ [][NextSockets]_vars

\* C28: every websocket that has completed connect for (document, user) and
\* has not itself disconnected is registered in active_connections, also
\* after an older connection of the same user_id has disconnected, and is
\* sent the operations other users submit to the document.
C28_OpenSocketRegistered ==
    [][\A k \in Websockets :
         sockets'[k].pc = "receive"
         => LET d == sockets'[k].doc
                u == sockets'[k].user_id
            IN /\ u \in DOMAIN connections'[d]
               /\ connections'[d][u] = k
               /\ \A j \in Websockets :
                    (socket_operation(j) /\ sockets[j].user_id # u
                       /\ sockets[k].pc = "receive")
                    => Len(sockets'[k].inbox) = Len(sockets[k].inbox) + 1
      ]_vars

====
